---- MODULE Spec2Model ----
(***************************************************************************)
(* Model of the stale-branches-cleanup action (src/src/index.js).          *)
(*                                                                         *)
(* The script is one sequential async program.  Every action below is the  *)
(* completion of one awaited call together with the synchronous code that  *)
(* follows it up to the next await.  Text (branch names, the skip-branches *)
(* input, RegExp sources) is a sequence of one-character strings.          *)
(***************************************************************************)
EXTENDS Integers, Sequences, FiniteSets, TLC

VARIABLES
    inputs,                  \* the action's inputs as read by lines 37-52
    pc,                      \* the await the script is suspended at
    skipBranchNames,         \* line 74
    skipBranchPatternsRegex, \* line 76 (the RegExp sources)
    defaultBranch,           \* line 116
    branches,                \* line 129
    idx,                     \* position of the for-of loop of line 142
    processedCount,          \* line 140
    deletedCount,            \* line 33
    outputDeletedBranches,   \* line 32
    quota,                   \* what the quota probe of this step found (line 8), or NoProbe
    remote,                  \* the hosting service's record of the branch last fetched
                             \* by getCommit, until the next iteration's gate
    calls,                   \* every call issued to the hosting service, in order, with
                             \* whether it threw into the script (the guard absorbs a
                             \* failing probe, lines 17-21: quota records that one)
    slept,                   \* the branches (by position) after which the throttle delay ran
    log,                     \* the decision the script logged for each branch, in order
    output,                  \* what core.setOutput / core.info reported (lines 298-303)
    failed                   \* the message given to core.setFailed, or NoError

vars == <<inputs, pc, skipBranchNames, skipBranchPatternsRegex, defaultBranch,
          branches, idx, processedCount, deletedCount, outputDeletedBranches,
          quota, remote, calls, slept, log, output, failed>>

-----------------------------------------------------------------------------
(* Bounds of the model *)

MaxBranches == 2
MaxPRs == 1
MaxAhead == 1
MaxRuleLen == 3
MaxNameLen == 3

-----------------------------------------------------------------------------
(* Values *)

\* a JavaScript number as parseInt returns it: NaN, or an integer
NaN == [nan |-> TRUE, value |-> 0]
Num(n) == [nan |-> FALSE, value |-> n]

SeqsUpTo(S, n) == UNION { [1..k -> S] : k \in 0..n }

NoError == "none"
NoRemote == [known |-> FALSE]
NoProbe == [probed |-> FALSE]

DayMs == 24 * 60 * 60 * 1000

\* new Date() of line 69, in ms
Now == 2 * DayMs

\* parseInt results offered for the numeric inputs
StaleDaysInputs == {NaN, Num(-1), Num(0), Num(1)}
MaxBranchesInputs == {NaN, Num(0), Num(1), Num(2)}
ThrottleInputs == {NaN, Num(-1), Num(0), Num(1)}
ThresholdInputs == {NaN, Num(-1), Num(0), Num(1)}

\* the skip-branches input: a literal, a separator followed by blanks, a wildcard;
\* and a wildcard entry that is no RegExp
SkipBranchesInputs == { <<"k", ",", " ", "r", "*", ",">>, <<"(", "*">> }

\* skip-branches inputs and branch names for the exclusion matching on its own
RuleChars == {"r", "/", "*", ".", "(", ","}
NameChars == {"r", "/", "p"}
ExclusionTexts == SeqsUpTo(RuleChars, MaxRuleLen)
TestNames == SeqsUpTo(NameChars, MaxNameLen)

EventNames == {"workflow_dispatch", "schedule", "push"}

\* branch names the listing may hold
BranchNames == { <<"m">>, <<"k">>, <<"r", "1">>, <<"f">>, <<"g">> }

DefaultBranches == { <<"m">> }

\* commit dates the service may report
CommitDates == {Now - DayMs - 1, Now - DayMs, Now}

\* a pull request as pulls.list returns it
PullRequests == { [state |-> "open", merged_at |-> FALSE],
                  [state |-> "closed", merged_at |-> FALSE],
                  [state |-> "closed", merged_at |-> TRUE] }

\* what the service holds about one branch
RemoteRecords ==
    [known : {TRUE}, date : CommitDates, aheadBy : 0..MaxAhead,
     prs : SeqsUpTo(PullRequests, MaxPRs)]

\* the same with a commit dated after the start of the run, and with one more
\* pull request per branch
WideCommitDates == CommitDates \cup {Now + 1}

WideRemoteRecords ==
    [known : {TRUE}, date : WideCommitDates, aheadBy : 0..MaxAhead,
     prs : SeqsUpTo(PullRequests, MaxPRs + 1)]

\* results of the quota probe: the call fails, or data.resources.core.remaining
ProbeResults ==
    {[probed |-> TRUE, ok |-> FALSE, remaining |-> 0]}
        \cup [probed : {TRUE}, ok : {TRUE}, remaining : 0..1]

BranchRecords == [name : BranchNames, protected : BOOLEAN]

NoDuplicateNames(bs) == \A i, j \in 1..Len(bs) : i # j => bs[i].name # bs[j].name

Listings == { bs \in SeqsUpTo(BranchRecords, MaxBranches) : NoDuplicateNames(bs) }

\* isNaN, and the comparisons of numbers (false when an operand is NaN)
IsNaN(x) == x.nan
Less(x, n) == ~x.nan /\ x.value < n
LessOrEqual(x, n) == ~x.nan /\ x.value <= n

-----------------------------------------------------------------------------
(* Exclusion list: lines 78-96 and 170-183 *)

Contains(s, c) == \E i \in 1..Len(s) : s[i] = c

\* String.prototype.split(',')
RECURSIVE SplitFrom(_, _, _)
SplitFrom(text, i, acc) ==
    IF i > Len(text) THEN <<acc>>
    ELSE IF text[i] = "," THEN <<acc>> \o SplitFrom(text, i + 1, <<>>)
    ELSE SplitFrom(text, i + 1, Append(acc, text[i]))

Split(text) == SplitFrom(text, 1, <<>>)

\* String.prototype.trim()
RECURSIVE Trim(_)
Trim(s) ==
    IF s = <<>> THEN s
    ELSE IF s[1] = " " THEN Trim(Tail(s))
    ELSE IF s[Len(s)] = " " THEN Trim(SubSeq(s, 1, Len(s) - 1))
    ELSE s

Exclusions(text) ==
    LET parts == Split(text)
        trimmed == [i \in 1..Len(parts) |-> Trim(parts[i])]
        NonEmpty(item) == Len(item) > 0
    IN SelectSeq(trimmed, NonEmpty)

\* item.replace(/\*/g, '.*')
RECURSIVE ReplaceStars(_)
ReplaceStars(item) ==
    IF item = <<>> THEN <<>>
    ELSE IF item[1] = "*" THEN <<".", "*">> \o ReplaceStars(Tail(item))
    ELSE <<item[1]>> \o ReplaceStars(Tail(item))

\* line 88 without the closing '$'
RegExpSourceOpenEnded(item) == <<"^">> \o ReplaceStars(item)

\* the source of new RegExp('^' + ... + '$')
RegExpSource(item) == <<"^">> \o ReplaceStars(item) \o <<"$">>

\* whether new RegExp(source) returns: it throws a SyntaxError on a group that
\* is not closed and on a ')' that closes none
RECURSIVE GroupsClosed(_, _)
GroupsClosed(source, depth) ==
    IF source = <<>> THEN depth = 0
    ELSE IF source[1] = "(" THEN GroupsClosed(Tail(source), depth + 1)
    ELSE IF source[1] = ")" THEN depth > 0 /\ GroupsClosed(Tail(source), depth - 1)
    ELSE GroupsClosed(Tail(source), depth)

RegExpCompiles(source) == GroupsClosed(source, 0)

IsPattern(item) == Contains(item, "*")
IsLiteral(item) == ~Contains(item, "*")

CompileNames(text) == SelectSeq(Exclusions(text), IsLiteral)

CompilePatterns(text) ==
    LET pats == SelectSeq(Exclusions(text), IsPattern)
    IN [i \in 1..Len(pats) |-> RegExpSource(pats[i])]

\* the loop of lines 81-96 runs to its end: every new RegExp of line 88 returns
ExclusionsCompile(text) ==
    LET pats == SelectSeq(Exclusions(text), IsPattern)
    IN \A i \in 1..Len(pats) : RegExpCompiles(RegExpSource(pats[i]))

\* RegExp matching for the sources the model builds: literal characters, '.',
\* a '*' after an atom, '^' first and '$' last
RECURSIVE MatchHere(_, _)
RECURSIVE MatchStar(_, _, _)
MatchHere(re, text) ==
    IF re = <<>> THEN TRUE
    ELSE IF re = <<"$">> THEN text = <<>>
    ELSE IF Len(re) >= 2 /\ re[2] = "*" THEN MatchStar(re[1], Tail(Tail(re)), text)
    ELSE IF text # <<>> /\ (re[1] = "." \/ re[1] = text[1])
         THEN MatchHere(Tail(re), Tail(text))
    ELSE FALSE

MatchStar(c, re, text) ==
    \E k \in 0..Len(text) :
        /\ \A j \in 1..k : c = "." \/ text[j] = c
        /\ MatchHere(re, SubSeq(text, k + 1, Len(text)))

RegExpTest(source, text) == MatchHere(Tail(source), text)

\* lines 170-183
IsExcluded(name, names, patterns) ==
    IF \E i \in 1..Len(names) : names[i] = name THEN TRUE
    ELSE \E i \in 1..Len(patterns) : RegExpTest(patterns[i], name)

-----------------------------------------------------------------------------
(* The rate-limit guard: lines 4-22 *)

\* the guard with the comparison of line 12 turned round
GuardComparesBackwards(probe, threshold) ==
    IF ~probe.ok THEN TRUE
    ELSE IF probe.remaining > threshold THEN FALSE
    ELSE TRUE

\* the guard with the catch of lines 17-21 answering false
GuardFailsClosed(probe, threshold) ==
    IF ~probe.ok THEN FALSE
    ELSE IF probe.remaining < threshold THEN FALSE
    ELSE TRUE

\* the guard with `<=` for the `<` of line 12
GuardAbortsAtThreshold(probe, threshold) ==
    IF ~probe.ok THEN TRUE
    ELSE IF probe.remaining <= threshold THEN FALSE
    ELSE TRUE

IsSafeToProceedWithApiCalls(probe, threshold) ==
    IF ~probe.ok THEN TRUE
    ELSE IF probe.remaining < threshold THEN FALSE
    ELSE TRUE

-----------------------------------------------------------------------------
(* Input validation: lines 54-66 *)

\* lines 54-66 without their throws
ValidationSkipped(in) == TRUE

InputsValid(in) ==
    /\ ~(IsNaN(in.staleDays) \/ Less(in.staleDays, 0))
    /\ ~(IsNaN(in.maxBranchesToDelete) \/ LessOrEqual(in.maxBranchesToDelete, 0))
    /\ ~(IsNaN(in.processThrottleMs) \/ Less(in.processThrottleMs, 0))
    /\ ~(IsNaN(in.rateLimitThreshold) \/ Less(in.rateLimitThreshold, 0))

\* line 70
StaleThreshold == Now - inputs.staleDays.value * DayMs

\* line 201 with `<=` for `<`
IsStaleInclusive(commitDate) == commitDate <= StaleThreshold

\* line 201
IsStale(commitDate) == commitDate < StaleThreshold

\* line 198
DaysSinceCommit(commitDate) == (Now - commitDate) \div DayMs

-----------------------------------------------------------------------------
(* Pull-request predicates: lines 213, 240, 241 *)

OpenPullRequests(prs) == SelectSeq(prs, LAMBDA pr : pr.state = "open")
HasOpenPRs(prs) == \E i \in 1..Len(prs) : prs[i].state = "open"
HasClosedUnmergedPRs(prs) ==
    \E i \in 1..Len(prs) : prs[i].state = "closed" /\ ~prs[i].merged_at

-----------------------------------------------------------------------------
(* Initial state: lines 31-52 *)

Inputs ==
    [ staleDays : StaleDaysInputs,
      skipBranches : SkipBranchesInputs,
      skipUmerged : BOOLEAN,
      skipOpenPRs : BOOLEAN,
      includeClosedPRs : BOOLEAN,
      maxBranchesToDelete : MaxBranchesInputs,
      processThrottleMs : ThrottleInputs,
      rateLimitThreshold : ThresholdInputs,
      continueOnErrors : BOOLEAN,
      dryRun : BOOLEAN ]

\* lines 32, 33 and 140, and nothing received or reported yet
Fresh ==
    /\ skipBranchNames = <<>>
    /\ skipBranchPatternsRegex = <<>>
    /\ defaultBranch = <<>>
    /\ branches = <<>>
    /\ idx = 0
    /\ processedCount = 0
    /\ deletedCount = 0
    /\ outputDeletedBranches = <<>>
    /\ quota = NoProbe
    /\ remote = NoRemote
    /\ calls = <<>>
    /\ slept = {}
    /\ log = <<>>
    /\ output = [set |-> 0, deletedBranches |-> <<>>, count |-> 0]
    /\ failed = NoError

Init ==
    /\ inputs \in Inputs
    /\ pc = "start"
    /\ Fresh

-----------------------------------------------------------------------------
(* Control transfers shared by the steps.  Each sets pc, idx, output and     *)
(* failed; the counters and the deleted list are set by the step first.    *)

Call(op, returned) == [op |-> op, branch |-> idx, threw |-> ~returned]

Logged(decision) == log' = Append(log, [branch |-> idx, decision |-> decision])

\* lines 298-299 and 301-304 reporting an empty list
OutputsReset ==
    output' = [set |-> output.set + 1, deletedBranches |-> <<>>, count |-> 0]

\* lines 298-299, and 301-304 in the catch
SetOutputs ==
    output' = [set |-> output.set + 1,
               deletedBranches |-> outputDeletedBranches',
               count |-> deletedCount']

\* lines 293-299: the loop is over
Finish ==
    /\ pc' = "done"
    /\ SetOutputs
    /\ UNCHANGED <<idx, failed>>

\* lines 300-306: an error reached the top-level catch
Throw(message) ==
    /\ pc' = "done"
    /\ SetOutputs
    /\ failed' = message
    /\ UNCHANGED idx

\* the for-of loop moves to the branch after position i of n
Advance(i, n) ==
    IF i < n
    THEN /\ idx' = i + 1
         /\ pc' = "rateLimit"
         /\ UNCHANGED <<output, failed>>
    ELSE Finish

\* a `continue` statement
Continue == Advance(idx, Len(branches))

\* lines 287-291: the end of the loop body
EndOfBody ==
    IF inputs.processThrottleMs.value > 0
    THEN /\ pc' = "throttle"
         /\ UNCHANGED <<idx, output, failed>>
    ELSE Continue

\* suspend at the next await of the loop body
Await(label) ==
    /\ pc' = label
    /\ UNCHANGED <<idx, output, failed>>

\* lines 277-285 with the throw of line 283 on both sides
BranchErrorRethrown ==
    /\ Logged("error")
    /\ Throw("branch error")

\* lines 277-285 with the continue of line 280 on both sides
BranchErrorSwallowed ==
    /\ Logged("error")
    /\ Continue

\* lines 277-285
BranchError ==
    /\ Logged("error")
    /\ IF inputs.continueOnErrors THEN Continue ELSE Throw("branch error")

NoCount == UNCHANGED <<processedCount, deletedCount, outputDeletedBranches>>
Compiled == UNCHANGED <<inputs, skipBranchNames, skipBranchPatternsRegex>>

-----------------------------------------------------------------------------
(* Decisions of the loop body: the await the script goes to next, or the    *)
(* decision it logs for the branch                                         *)

Awaits == {"getCommit", "pulls.open", "compare", "pulls.all", "deleteRef"}

\* lines 261-263
WhenDeletable == IF inputs.dryRun THEN "dry-run" ELSE "deleteRef"

\* line 220 without its test
MergeStateAlwaysChecked == "compare"

\* line 220
AfterOpenPRCheck == IF inputs.skipUmerged THEN "compare" ELSE WhenDeletable

\* lines 201-206, 274-275
AfterGetCommit(commitDate) ==
    IF IsStale(commitDate)
    THEN IF inputs.skipOpenPRs THEN "pulls.open" ELSE AfterOpenPRCheck
    ELSE "active"

\* lines 213-216 without the test of the list's length
OpenPRsIgnored(pullRequests) == AfterOpenPRCheck

\* lines 213-216
AfterListOpenPRs(pullRequests) ==
    IF Len(pullRequests) > 0 THEN "open-prs" ELSE AfterOpenPRCheck

\* line 227 with `>=` for `>`
CompareBlocksMerged(ahead_by) ==
    IF ahead_by >= 0
    THEN IF inputs.includeClosedPRs THEN "pulls.all" ELSE "unmerged"
    ELSE WhenDeletable

\* lines 227-256
AfterCompare(ahead_by) ==
    IF ahead_by > 0
    THEN IF inputs.includeClosedPRs THEN "pulls.all" ELSE "unmerged"
    ELSE WhenDeletable

\* lines 240-250 without the branch of line 245
ClosedPRsNotQualifying(prs) ==
    IF HasOpenPRs(prs) THEN "unmerged-open-prs" ELSE "unmerged"

\* lines 240-250 with the tests of lines 242 and 245 in the other order
ClosedPRsOverrideOpen(prs) ==
    IF HasClosedUnmergedPRs(prs) THEN WhenDeletable
    ELSE IF HasOpenPRs(prs) THEN "unmerged-open-prs"
    ELSE "unmerged"

\* lines 240-250
AfterListAllPRs(prs) ==
    IF HasOpenPRs(prs) THEN "unmerged-open-prs"
    ELSE IF HasClosedUnmergedPRs(prs) THEN WhenDeletable
    ELSE "unmerged"

\* line 273 moved into the else of line 263
DryRunNotCounted(decision) == FALSE

\* line 273 on the dry-run path
CountsAsProcessed(decision) == decision = "dry-run"

\* carry a decision out: the next await, or the logged skip (lines 214-216,
\* 243-244, 248-249, 253-254), dry run (262, 273) or active branch (275)
Go(decision) ==
    /\ processedCount' =
          IF CountsAsProcessed(decision) THEN processedCount + 1 ELSE processedCount
    /\ UNCHANGED <<deletedCount, outputDeletedBranches>>
    /\ IF decision \in Awaits
       THEN /\ UNCHANGED log
            /\ Await(decision)
       ELSE /\ Logged(decision)
            /\ IF decision \in {"dry-run", "active"} THEN EndOfBody ELSE Continue

-----------------------------------------------------------------------------
(* Gates at the top of an iteration: lines 144-187 *)

\* line 151 with `>` for `>=`
CapOffByOne == processedCount > inputs.maxBranchesToDelete.value

\* line 151
CapReached == processedCount >= inputs.maxBranchesToDelete.value

\* line 159
IsDefaultBranch(branch) == branch.name = defaultBranch

\* line 165 reading a field the listing does not carry
ProtectedFlagMisread(branch) == FALSE

\* line 165
IsProtected(branch) == branch.protected

\* lines 171-184 without the pattern loop of lines 177-182
ExcludedByNameOnly(branch) ==
    \E i \in 1..Len(skipBranchNames) : skipBranchNames[i] = branch.name

\* lines 171-184
IsExcludedBranch(branch) ==
    IsExcluded(branch.name, skipBranchNames, skipBranchPatternsRegex)

\* lines 145-187 with the cap check of lines 151-154 moved behind the skips
GateChecksCapLast(canProceed, branch) ==
    IF ~canProceed THEN "rate-limit"
    ELSE IF IsDefaultBranch(branch) THEN "default"
    ELSE IF IsProtected(branch) THEN "protected"
    ELSE IF IsExcludedBranch(branch) THEN "excluded"
    ELSE IF CapReached THEN "cap"
    ELSE "getCommit"

\* lines 145-187, given the guard's answer
GateDecision(canProceed, branch) ==
    IF ~canProceed THEN "rate-limit"
    ELSE IF CapReached THEN "cap"
    ELSE IF IsDefaultBranch(branch) THEN "default"
    ELSE IF IsProtected(branch) THEN "protected"
    ELSE IF IsExcludedBranch(branch) THEN "excluded"
    ELSE "getCommit"

\* line 125
EventSupported(eventName) == eventName \in {"workflow_dispatch", "schedule"}

-----------------------------------------------------------------------------
(* Steps *)

\* lines 36-105: read, validate, compile the exclusions, up to the await of line 112
Start ==
    /\ pc = "start"
    /\ NoCount
    /\ UNCHANGED <<inputs, defaultBranch, branches, quota, remote, calls, slept, log>>
    /\ IF ~InputsValid(inputs)
       THEN /\ UNCHANGED <<skipBranchNames, skipBranchPatternsRegex>>
            /\ Throw("Invalid input")
       ELSE IF ~ExclusionsCompile(inputs.skipBranches)
       THEN /\ UNCHANGED <<skipBranchNames, skipBranchPatternsRegex>>
            /\ Throw("Invalid regular expression")
       ELSE /\ skipBranchNames' = CompileNames(inputs.skipBranches)
            /\ skipBranchPatternsRegex' = CompilePatterns(inputs.skipBranches)
            /\ Await("repos.get")

\* lines 112-125 (and 294-299 for an unsupported event)
GetRepo ==
    /\ pc = "repos.get"
    /\ NoCount
    /\ Compiled
    /\ UNCHANGED <<branches, quota, remote, slept, log>>
    /\ \/ /\ calls' = Append(calls, Call("repos.get", FALSE))
          /\ UNCHANGED defaultBranch
          /\ Throw("api error")
       \/ \E d \in DefaultBranches, eventName \in EventNames :
            /\ calls' = Append(calls, Call("repos.get", TRUE))
            /\ defaultBranch' = d
            /\ IF EventSupported(eventName) THEN Await("listBranches") ELSE Finish

\* lines 129-142
ListBranches ==
    /\ pc = "listBranches"
    /\ NoCount
    /\ Compiled
    /\ UNCHANGED <<defaultBranch, quota, remote, slept, log>>
    /\ \/ /\ calls' = Append(calls, Call("listBranches", FALSE))
          /\ UNCHANGED branches
          /\ Throw("api error")
       \/ \E bs \in Listings :
            /\ calls' = Append(calls, Call("listBranches", TRUE))
            /\ branches' = bs
            /\ Advance(0, Len(bs))

\* lines 142-187: the quota probe, the cap, and the three skips
RateLimitGate ==
    /\ pc = "rateLimit"
    /\ NoCount
    /\ Compiled
    /\ UNCHANGED <<defaultBranch, branches, slept>>
    /\ remote' = NoRemote
    /\ \E probe \in ProbeResults :
        LET canProceed ==
                IsSafeToProceedWithApiCalls(probe, inputs.rateLimitThreshold.value)
            decision == GateDecision(canProceed, branches[idx])
        IN /\ calls' = Append(calls, Call("rateLimit.get", TRUE))
           /\ quota' = probe
           /\ IF decision = "getCommit"
              THEN /\ UNCHANGED log
                   /\ Await("getCommit")
              ELSE /\ Logged(decision)
                   /\ CASE decision = "rate-limit" ->
                               Throw("API rate limit exceeded threshold")
                        [] decision = "cap" -> Finish
                        [] OTHER -> Continue

\* lines 191-201, the service holding one of `records` for the branch
GetCommitOf(records) ==
    /\ pc = "getCommit"
    /\ Compiled
    /\ UNCHANGED <<defaultBranch, branches, slept>>
    /\ quota' = NoProbe
    /\ \/ /\ calls' = Append(calls, Call("getCommit", FALSE))
          /\ remote' = NoRemote
          /\ NoCount
          /\ BranchError
       \/ \E rec \in records :
            /\ calls' = Append(calls, Call("getCommit", TRUE))
            /\ remote' = rec
            /\ Go(AfterGetCommit(rec.date))

GetCommit == GetCommitOf(RemoteRecords)

GetCommitWide == GetCommitOf(WideRemoteRecords)

\* lines 207-217
ListOpenPRs ==
    /\ pc = "pulls.open"
    /\ Compiled
    /\ UNCHANGED <<defaultBranch, branches, slept, remote>>
    /\ quota' = NoProbe
    /\ \/ /\ calls' = Append(calls, Call("pulls.open", FALSE))
          /\ NoCount
          /\ BranchError
       \/ /\ calls' = Append(calls, Call("pulls.open", TRUE))
          /\ Go(AfterListOpenPRs(OpenPullRequests(remote.prs)))

\* lines 221-227
CompareCommits ==
    /\ pc = "compare"
    /\ Compiled
    /\ UNCHANGED <<defaultBranch, branches, slept, remote>>
    /\ quota' = NoProbe
    /\ \/ /\ calls' = Append(calls, Call("compare", FALSE))
          /\ NoCount
          /\ BranchError
       \/ /\ calls' = Append(calls, Call("compare", TRUE))
          /\ Go(AfterCompare(remote.aheadBy))

\* lines 230-250
ListAllPRs ==
    /\ pc = "pulls.all"
    /\ Compiled
    /\ UNCHANGED <<defaultBranch, branches, slept, remote>>
    /\ quota' = NoProbe
    /\ \/ /\ calls' = Append(calls, Call("pulls.all", FALSE))
          /\ NoCount
          /\ BranchError
       \/ /\ calls' = Append(calls, Call("pulls.all", TRUE))
          /\ Go(AfterListAllPRs(remote.prs))

\* line 270 with unshift for push
Unshift(list, name) == <<name>> \o list

\* line 270
Push(list, name) == Append(list, name)

\* lines 264-273
DeleteRef ==
    /\ pc = "deleteRef"
    /\ Compiled
    /\ UNCHANGED <<defaultBranch, branches, slept, remote>>
    /\ quota' = NoProbe
    /\ \/ /\ calls' = Append(calls, Call("deleteRef", FALSE))
          /\ NoCount
          /\ BranchError
       \/ /\ calls' = Append(calls, Call("deleteRef", TRUE))
          /\ outputDeletedBranches' = Push(outputDeletedBranches, branches[idx].name)
          /\ deletedCount' = deletedCount + 1
          /\ processedCount' = processedCount + 1
          /\ Logged("deleted")
          /\ EndOfBody

\* lines 288-291: the timer of the throttle delay fires
Throttle ==
    /\ pc = "throttle"
    /\ NoCount
    /\ Compiled
    /\ UNCHANGED <<defaultBranch, branches, calls, remote, log>>
    /\ quota' = NoProbe
    /\ slept' = slept \cup {idx}
    /\ Continue

Next ==
    \/ Start
    \/ GetRepo
    \/ ListBranches
    \/ RateLimitGate
    \/ GetCommit
    \/ ListOpenPRs
    \/ CompareCommits
    \/ ListAllPRs
    \/ DeleteRef
    \/ Throttle

Spec == Init /\ [][Next]_vars

-----------------------------------------------------------------------------
(* The same script against a service with more to report per branch, for    *)
(* fewer configurations: merge state is evaluated and closed pull requests  *)
(* are looked at                                                            *)

WideInputs ==
    [ staleDays : {Num(0), Num(1)},
      skipBranches : { <<"k", ",", " ", "r", "*", ",">> },
      skipUmerged : {TRUE},
      skipOpenPRs : BOOLEAN,
      includeClosedPRs : {TRUE},
      maxBranchesToDelete : {Num(2)},
      processThrottleMs : {Num(0), Num(1)},
      rateLimitThreshold : {Num(0)},
      continueOnErrors : BOOLEAN,
      dryRun : BOOLEAN ]

WideInit ==
    /\ inputs \in WideInputs
    /\ pc = "start"
    /\ Fresh

WideNext ==
    \/ Start
    \/ GetRepo
    \/ ListBranches
    \/ RateLimitGate
    \/ GetCommitWide
    \/ ListOpenPRs
    \/ CompareCommits
    \/ ListAllPRs
    \/ DeleteRef
    \/ Throttle

WideSpec == WideInit /\ [][WideNext]_vars

-----------------------------------------------------------------------------
(* The exclusion list on its own: lines 78-96 applied to a skip-branches    *)
(* input, then lines 170-187 applied to a branch name                       *)

MatchInputs ==
    [ staleDays : {Num(1)},
      skipBranches : ExclusionTexts,
      skipUmerged : {TRUE},
      skipOpenPRs : {TRUE},
      includeClosedPRs : {TRUE},
      maxBranchesToDelete : {Num(1)},
      processThrottleMs : {Num(0)},
      rateLimitThreshold : {Num(0)},
      continueOnErrors : {FALSE},
      dryRun : {FALSE} ]

MatchInit ==
    /\ inputs \in MatchInputs
    /\ pc = "compile"
    /\ Fresh

\* lines 78-96
CompileExclusions ==
    /\ pc = "compile"
    /\ NoCount
    /\ UNCHANGED <<inputs, defaultBranch, branches, quota, remote, calls, slept, log>>
    /\ IF ExclusionsCompile(inputs.skipBranches)
       THEN /\ skipBranchNames' = CompileNames(inputs.skipBranches)
            /\ skipBranchPatternsRegex' = CompilePatterns(inputs.skipBranches)
            /\ Await("test")
       ELSE /\ UNCHANGED <<skipBranchNames, skipBranchPatternsRegex>>
            /\ Throw("Invalid regular expression")

\* lines 170-187 for one branch name
TestExclusion ==
    /\ pc = "test"
    /\ NoCount
    /\ Compiled
    /\ UNCHANGED <<defaultBranch, quota, remote, calls, slept, output, failed>>
    /\ \E name \in TestNames :
        LET branch == [name |-> name, protected |-> FALSE]
        IN /\ branches' = <<branch>>
           /\ idx' = 1
           /\ log' = Append(log, [branch |-> 1,
                                  decision |-> IF IsExcludedBranch(branch)
                                               THEN "excluded" ELSE "not-excluded"])
           /\ pc' = "tested"

MatchNext ==
    \/ CompileExclusions
    \/ TestExclusion

MatchSpec == MatchInit /\ [][MatchNext]_vars

-----------------------------------------------------------------------------
(* Vocabulary of the properties *)

Max == inputs.maxBranchesToDelete.value
Threshold == inputs.rateLimitThreshold.value
ThrottleMs == inputs.processThrottleMs.value

RateLimitMessage == "API rate limit exceeded threshold"

Occurrences(seq, x) == Cardinality({k \in 1..Len(seq) : seq[k] = x})

\* the names of the branches whose deleteRef call returned, in call order
DeletedByCalls ==
    LET returned == SelectSeq(calls, LAMBDA c : c.op = "deleteRef" /\ ~c.threw)
    IN [k \in 1..Len(returned) |-> branches[returned[k].branch].name]

\* the branch `remote` describes, and whether its iteration is over
Evaluated == IF pc = "rateLimit" THEN idx - 1 ELSE idx
IterationOver == pc \in {"rateLimit", "done"}

NoCallThrew(i) == \A k \in 1..Len(calls) : calls[k].branch = i => ~calls[k].threw

DecisionsFor(i) == {log[k].decision : k \in {j \in 1..Len(log) : log[j].branch = i}}

DeletedOnce(i) ==
    /\ Occurrences(outputDeletedBranches, branches[i].name) = 1
    /\ pc = "done" => Occurrences(output.deletedBranches, branches[i].name) = 1

NotDeleted(i) ==
    /\ Occurrences(outputDeletedBranches, branches[i].name) = 0
    /\ Occurrences(output.deletedBranches, branches[i].name) = 0
    /\ \A k \in 1..Len(calls) : calls[k].branch = i => calls[k].op # "deleteRef"

-----------------------------------------------------------------------------
MayBeDeleted(name) ==
    /\ name # defaultBranch
    /\ \A i \in 1..Len(branches) : branches[i].name = name => ~branches[i].protected

(* C1: no deleteRef call is ever issued for the default branch or for a    *)
(* protected branch, and neither name appears among the deleted branches,  *)
(* in the script's list or in the reported output, whatever the inputs.    *)

C1_DefaultAndProtectedKept ==
    /\ \A k \in 1..Len(calls) :
          calls[k].op = "deleteRef" => MayBeDeleted(branches[calls[k].branch].name)
    /\ \A k \in 1..Len(outputDeletedBranches) : MayBeDeleted(outputDeletedBranches[k])
    /\ \A k \in 1..Len(output.deletedBranches) : MayBeDeleted(output.deletedBranches[k])

\* a run that passed a protected branch and deleted another one
C1_Witness ==
    /\ pc = "done"
    /\ Len(branches) = 2
    /\ branches[1].protected /\ branches[1].name # defaultBranch
    /\ output.deletedBranches = <<branches[2].name>>

MatchesExclusionList(name) ==
    IsExcluded(name, CompileNames(inputs.skipBranches), CompilePatterns(inputs.skipBranches))

(* C2: for a branch whose name matches the exclusion list (a literal or a  *)
(* wildcard entry) none of getCommit, pulls.list, compareCommits and       *)
(* deleteRef is ever called.                                               *)

C2_ExcludedNeverFetched ==
    \A k \in 1..Len(calls) :
        calls[k].op \in Awaits => ~MatchesExclusionList(branches[calls[k].branch].name)

\* a completed run over a literally excluded and a wildcard-excluded branch,
\* neither protected nor default: only the two probes followed the listing
C2_Witness ==
    /\ pc = "done" /\ failed = NoError
    /\ Len(branches) = 2
    /\ branches[1] = [name |-> <<"k">>, protected |-> FALSE]
    /\ branches[2] = [name |-> <<"r", "1">>, protected |-> FALSE]
    /\ DecisionsFor(1) = {"excluded"} /\ DecisionsFor(2) = {"excluded"}
    /\ Len(calls) = 4

(* C3: with valid inputs the deletion count and the length of the deleted  *)
(* list, in the script and in the reported output, never exceed            *)
(* max-branches-to-delete.                                                 *)

C3_DeletionsWithinCap ==
    InputsValid(inputs) =>
        /\ deletedCount <= Max
        /\ Len(outputDeletedBranches) <= Max
        /\ output.count <= Max
        /\ Len(output.deletedBranches) <= Max

\* the cap stopped the loop with a branch left
C3_Witness ==
    /\ pc = "done"
    /\ output.count = Max
    /\ log # <<>> /\ log[Len(log)].decision = "cap"

(* C4: when the probe succeeds and reports less than rate-limit-threshold, *)
(* the run fails at once, whatever continue-on-errors is; the probe is the *)
(* only call issued for the current branch, none is issued for a later     *)
(* one, and the output reports exactly the branches whose deleteRef call   *)
(* returned before.                                                         *)

C4_RateLimitAbortKeepsResults ==
    /\ (InputsValid(inputs) /\ quota.probed /\ quota.ok /\ quota.remaining < Threshold)
          => (pc = "done" /\ failed = RateLimitMessage)
    /\ failed = RateLimitMessage =>
          /\ pc = "done"
          /\ \A k \in 1..Len(calls) :
                /\ calls[k].branch <= idx
                /\ calls[k].branch = idx => calls[k].op = "rateLimit.get"
          /\ output.set = 1
          /\ output.deletedBranches = DeletedByCalls
          /\ output.count = Len(DeletedByCalls)
          /\ \A k \in 1..Len(output.deletedBranches) :
                \E i \in 1..(idx - 1) : branches[i].name = output.deletedBranches[k]

\* an abort at the second branch after one deletion, with continue-on-errors set
C4_Witness ==
    /\ failed = RateLimitMessage
    /\ inputs.continueOnErrors
    /\ idx = 2
    /\ output.deletedBranches = <<branches[1].name>>

WouldDeleteDecisions == {k \in 1..Len(log) : log[k].decision = "dry-run"}

(* C5: in a dry run no deleteRef call is issued and the deleted list and   *)
(* count stay empty, yet the candidate counter counts every would-delete   *)
(* decision and, once it reaches max-branches-to-delete, no later branch   *)
(* is evaluated.                                                           *)

C5_DryRunCountsButDeletesNothing ==
    inputs.dryRun =>
        /\ \A k \in 1..Len(calls) : calls[k].op # "deleteRef"
        /\ outputDeletedBranches = <<>> /\ deletedCount = 0
        /\ output.deletedBranches = <<>> /\ output.count = 0
        /\ processedCount = Cardinality(WouldDeleteDecisions)
        /\ InputsValid(inputs) =>
              /\ processedCount <= Max
              /\ processedCount = Max =>
                    /\ pc \in {"throttle", "rateLimit", "done"}
                    /\ \A k \in 1..Len(calls) :
                          (\A j \in WouldDeleteDecisions : calls[k].branch > log[j].branch)
                              => calls[k].op = "rateLimit.get"

\* a dry run stopped by the cap with a branch left
C5_Witness ==
    /\ inputs.dryRun
    /\ pc = "done" /\ failed = NoError
    /\ processedCount = Max
    /\ log[Len(log)].decision = "cap"

(* C6: a step in which the quota probe itself fails goes on as it would    *)
(* with sufficient quota, whatever continue-on-errors is: the run does not *)
(* fail, and the script stops by the cap, skips the branch, or goes on to  *)
(* fetch its commit.                                                       *)

C6_ProbeFailureProceeds ==
    [][ (pc = "rateLimit" /\ quota'.probed /\ ~quota'.ok) =>
            /\ failed' = NoError
            /\ pc' = IF processedCount >= Max THEN "done"
                     ELSE IF \/ branches[idx].name = defaultBranch
                             \/ branches[idx].protected
                             \/ MatchesExclusionList(branches[idx].name)
                          THEN (IF idx < Len(branches) THEN "rateLimit" ELSE "done")
                     ELSE "getCommit"
            /\ outputDeletedBranches' = outputDeletedBranches ]_vars

\* the probe failed at the second branch, after a deletion, and the script
\* is about to fetch that branch's commit
C6_Witness ==
    /\ quota.probed /\ ~quota.ok
    /\ pc = "getCommit"
    /\ idx = 2
    /\ deletedCount = 1

(* C7, as stated: in a run that is no dry run, a fetched branch whose last *)
(* commit is at least stale-days days old and that is not ahead of the     *)
(* default branch has been deleted, once, when its iteration is over.      *)

C7_Original ==
    (/\ IterationOver /\ remote.known
     /\ ~inputs.dryRun
     /\ DaysSinceCommit(remote.date) >= inputs.staleDays.value
     /\ remote.aheadBy = 0)
        => DeletedOnce(Evaluated)

(* C7, amended: in a run that is no dry run, a branch that the loop        *)
(* reaches and fetches (it is not the default branch, not protected, not   *)
(* excluded, and neither the quota nor the cap stopped the run before it), *)
(* whose last commit is strictly older than stale-days days, that is not   *)
(* ahead of the default branch, that has no open pull request when         *)
(* skip-open-prs is set, and none of whose calls fails, has been deleted   *)
(* when its iteration is over, and its name is in the list exactly once.   *)

C7_StaleMergedBranchDeleted ==
    (/\ IterationOver /\ remote.known
     /\ ~inputs.dryRun
     /\ remote.date < Now - inputs.staleDays.value * DayMs
     /\ remote.aheadBy = 0
     /\ inputs.skipOpenPRs => ~HasOpenPRs(remote.prs)
     /\ NoCallThrew(Evaluated))
        => DeletedOnce(Evaluated)

\* a completed run whose last branch went through both checks and was deleted
C7_Witness ==
    /\ pc = "done" /\ failed = NoError
    /\ remote.known /\ remote.aheadBy = 0
    /\ inputs.skipOpenPRs /\ inputs.skipUmerged /\ ~inputs.dryRun
    /\ DecisionsFor(idx) = {"deleted"}
    /\ DeletedOnce(idx)

StaleAheadWithOneOpenPR ==
    /\ remote.known
    /\ remote.date < Now - inputs.staleDays.value * DayMs
    /\ remote.aheadBy > 0
    /\ Len(OpenPullRequests(remote.prs)) = 1

Skipped(i) ==
    /\ NotDeleted(i)
    /\ DecisionsFor(i) \cap {"deleted", "dry-run"} = {}
    /\ (IterationOver /\ NoCallThrew(i)) =>
          DecisionsFor(i) \subseteq {"open-prs", "unmerged-open-prs", "unmerged"}
              /\ DecisionsFor(i) # {}

(* C8, as stated: a stale branch ahead of the default branch with one open *)
(* pull request is never deleted nor counted, for every combination of     *)
(* skip-open-prs and skip-unmerged.                                        *)

C8_Original == StaleAheadWithOneOpenPR => Skipped(Evaluated)

(* C8, amended: a stale branch ahead of the default branch with one open   *)
(* pull request is never deleted nor counted, irrespective of              *)
(* include-unmerged-and-closed-prs, provided skip-open-prs or              *)
(* skip-unmerged is set.                                                   *)

C8_OpenPRBranchSkipped ==
    (StaleAheadWithOneOpenPR /\ (inputs.skipOpenPRs \/ inputs.skipUmerged))
        => Skipped(Evaluated)

\* skip-open-prs off: the open pull request is found by the all-state listing
C8_Witness ==
    /\ IterationOver
    /\ StaleAheadWithOneOpenPR
    /\ ~inputs.skipOpenPRs /\ inputs.skipUmerged /\ inputs.includeClosedPRs
    /\ DecisionsFor(Evaluated) = {"unmerged-open-prs"}

StaleAheadWithOneClosedUnmergedPR ==
    /\ remote.known
    /\ remote.date < Now - inputs.staleDays.value * DayMs
    /\ remote.aheadBy > 0
    /\ ~HasOpenPRs(remote.prs)
    /\ Cardinality({k \in 1..Len(remote.prs) :
            remote.prs[k].state = "closed" /\ ~remote.prs[k].merged_at}) = 1

(* C9, as stated (for a run that is no dry run and a branch none of whose  *)
(* calls fails): a stale branch ahead of the default branch with no open   *)
(* pull request and one closed without merge is deleted when               *)
(* include-unmerged-and-closed-prs is set and is not deleted when it is    *)
(* not.                                                                    *)

C9_Original ==
    (/\ IterationOver /\ StaleAheadWithOneClosedUnmergedPR
     /\ ~inputs.dryRun /\ NoCallThrew(Evaluated))
        => IF inputs.includeClosedPRs
           THEN DeletedOnce(Evaluated)
           ELSE NotDeleted(Evaluated)

(* C9, amended: such a branch is deleted when                              *)
(* include-unmerged-and-closed-prs is set (in a run that is no dry run,    *)
(* the branch being fetched and none of its calls failing), and it is      *)
(* skipped when include-unmerged-and-closed-prs is not set provided        *)
(* skip-unmerged is set; with skip-unmerged off it is deleted either way.  *)

C9_ClosedUnmergedPRDecides ==
    (IterationOver /\ StaleAheadWithOneClosedUnmergedPR) =>
        /\ (inputs.includeClosedPRs /\ ~inputs.dryRun /\ NoCallThrew(Evaluated))
              => DeletedOnce(Evaluated)
        /\ (~inputs.includeClosedPRs /\ inputs.skipUmerged)
              => /\ NotDeleted(Evaluated)
                 /\ NoCallThrew(Evaluated) => DecisionsFor(Evaluated) = {"unmerged"}
        /\ (~inputs.skipUmerged /\ ~inputs.dryRun /\ NoCallThrew(Evaluated))
              => DeletedOnce(Evaluated)

\* the closed pull request lifted the block of the unmerged commits
C9_Witness ==
    /\ IterationOver
    /\ StaleAheadWithOneClosedUnmergedPR
    /\ inputs.skipUmerged /\ inputs.includeClosedPRs
    /\ \E k \in 1..Len(calls) : calls[k].branch = Evaluated /\ calls[k].op = "pulls.all"
    /\ DeletedOnce(Evaluated)

(* C10: when process-throttle-ms is positive, the throttle delay has run   *)
(* after every branch before the next branch's iteration starts.           *)

C10_ThrottleAfterEveryBranch ==
    (InputsValid(inputs) /\ ThrottleMs > 0 /\ pc = "rateLimit" /\ idx > 1)
        => (idx - 1) \in slept

BranchErrorMessage == "branch error"

\* the step is the failure of one of the calls made for the branch at idx
BranchCallFails ==
    /\ pc \in Awaits
    /\ Len(calls') = Len(calls) + 1
    /\ calls'[Len(calls')].threw

(* C11: with continue-on-errors set, a step in which getCommit, pulls.list, *)
(* compareCommits or deleteRef fails for a branch does not fail the run,    *)
(* leaves the deleted list, the deletion count and the cap counter as they  *)
(* were, records nothing but the error for that branch, and moves to the    *)
(* next branch of the listing (or ends the run normally after the last).    *)

C11_BranchErrorSkipsBranch ==
    [][ (BranchCallFails /\ inputs.continueOnErrors) =>
            /\ failed' = NoError
            /\ outputDeletedBranches' = outputDeletedBranches
            /\ deletedCount' = deletedCount
            /\ processedCount' = processedCount
            /\ \A k \in 1..Len(log) : log[k].branch # idx
            /\ log' = Append(log, [branch |-> idx, decision |-> "error"])
            /\ IF idx < Len(branches)
               THEN pc' = "rateLimit" /\ idx' = idx + 1
               ELSE pc' = "done" /\ output'.deletedBranches = outputDeletedBranches ]_vars

\* the first branch's deleteRef failed and the script is fetching the second
C11_Witness ==
    /\ inputs.continueOnErrors
    /\ pc = "getCommit" /\ idx = 2
    /\ \E k \in 1..Len(calls) :
          calls[k].branch = 1 /\ calls[k].op = "deleteRef" /\ calls[k].threw
    /\ processedCount = 0 /\ outputDeletedBranches = <<>>
    /\ failed = NoError

(* C12: with continue-on-errors off, a failure of getCommit, pulls.list,   *)
(* compareCommits or deleteRef is the last call of the run: the run is      *)
(* over and failed, and the output, set once, reports exactly the branches *)
(* whose deleteRef call returned before, with their number.                *)

C12_BranchErrorEndsRun ==
    \A k \in 1..Len(calls) :
        (calls[k].op \in Awaits /\ calls[k].threw /\ ~inputs.continueOnErrors) =>
            /\ k = Len(calls)
            /\ pc = "done"
            /\ failed = BranchErrorMessage
            /\ output.set = 1
            /\ outputDeletedBranches = DeletedByCalls
            /\ output.deletedBranches = DeletedByCalls
            /\ output.count = Len(DeletedByCalls)

\* the second branch's comparison failed after the first branch was deleted
C12_Witness ==
    /\ ~inputs.continueOnErrors
    /\ pc = "done" /\ failed = BranchErrorMessage
    /\ Len(branches) = 2
    /\ calls[Len(calls)] = [op |-> "compare", branch |-> 2, threw |-> TRUE]
    /\ output.deletedBranches = <<branches[1].name>> /\ output.count = 1

\* the characters other than '*' that RegExp syntax gives a meaning to
RegExpSpecials == {"\\", "^", "$", ".", "|", "?", "+", "(", ")", "[", "]", "{", "}"}

PlainEntry(item) == \A i \in 1..Len(item) : item[i] \notin RegExpSpecials

\* a wildcard entry as the specification reads it: the whole name, each '*' any
\* run of characters, every other character itself
RECURSIVE GlobMatch(_, _)
GlobMatch(entry, name) ==
    IF entry = <<>> THEN name = <<>>
    ELSE IF entry[1] = "*"
         THEN \E k \in 0..Len(name) :
                 GlobMatch(Tail(entry), SubSeq(name, k + 1, Len(name)))
    ELSE name # <<>> /\ entry[1] = name[1] /\ GlobMatch(Tail(entry), Tail(name))

\* the exclusion list as the specification reads it
ExcludedAsSpecified(text, name) ==
    LET entries == Exclusions(text)
    IN \E i \in 1..Len(entries) :
          IF IsPattern(entries[i]) THEN GlobMatch(entries[i], name)
          ELSE entries[i] = name

TestedName == branches[1].name
TestedExcluded == log[1].decision = "excluded"

(* C13: a branch name is excluded exactly when it equals a literal entry   *)
(* or when a wildcard entry matches the whole of it, each '*' standing for *)
(* any run of characters: 'r/*' excludes 'r/p' and 'r/' but neither 'r'    *)
(* nor 'pr/'.  Stated for lists whose wildcard entries hold, besides '*',  *)
(* no character of the RegExp syntax; literal entries are arbitrary.       *)

C13_WholeNameMatching ==
    LET entries == Exclusions(inputs.skipBranches)
    IN (/\ pc = "tested"
        /\ \A i \in 1..Len(entries) : IsPattern(entries[i]) => PlainEntry(entries[i]))
          => (TestedExcluded <=> ExcludedAsSpecified(inputs.skipBranches, TestedName))

\* 'r/*' excluded the name 'r/', where the '*' stands for nothing
C13_Witness ==
    /\ pc = "tested"
    /\ inputs.skipBranches = <<"r", "/", "*">>
    /\ TestedName = <<"r", "/">>
    /\ TestedExcluded

(* C14: compiling the exclusion list never fails, and a name is excluded   *)
(* exactly when it equals a literal entry or matches a wildcard entry in   *)
(* which every character other than '*' stands for itself.                 *)

C14_OnlyStarIsSpecial ==
    /\ failed = NoError
    /\ pc = "tested" =>
          (TestedExcluded <=> ExcludedAsSpecified(inputs.skipBranches, TestedName))

\* the position of a name in the listing (names are unique)
Position(name) == CHOOSE i \in 1..Len(branches) : branches[i].name = name

InListingOrder(list) ==
    /\ \A k \in 1..Len(list) : \E i \in 1..Len(branches) : branches[i].name = list[k]
    /\ \A k, l \in 1..Len(list) : k < l => Position(list[k]) < Position(list[l])

(* C15: the calls of the run are issued branch by branch in listing order, *)
(* none for a branch after one for a later branch, and the deleted list,   *)
(* in the script and in the output, is a subsequence of the listing in     *)
(* listing order, so that no name appears twice.                           *)

C15_ListingOrder ==
    /\ \A k, l \in 1..Len(calls) : k < l => calls[k].branch <= calls[l].branch
    /\ InListingOrder(outputDeletedBranches)
    /\ InListingOrder(output.deletedBranches)

\* both branches of a listing were deleted, in its order
C15_Witness ==
    /\ pc = "done"
    /\ Len(branches) = 2
    /\ output.deletedBranches = <<branches[1].name, branches[2].name>>
    /\ \E k \in 1..Len(calls) : calls[k].branch = 1 /\ calls[k].op = "compare"

\* the last branch that counted towards the cap
CountedDecisions == {k \in 1..Len(log) : log[k].decision \in {"deleted", "dry-run"}}
LastCounted == log[CHOOSE k \in CountedDecisions : \A j \in CountedDecisions : j <= k].branch

(* C16: the first call of every iteration is the quota probe; once the     *)
(* candidate counter has reached max-branches-to-delete, the only call     *)
(* issued after the branch that reached it is the probe of the next        *)
(* iteration, whose cap check ends the loop whatever that branch is, and    *)
(* a run stopped by the cap is complete, not failed.                       *)

C16_CapStopsLoop ==
    InputsValid(inputs) =>
        /\ \A k \in 1..Len(calls) :
              (calls[k].branch >= 1 /\ (k = 1 \/ calls[k - 1].branch # calls[k].branch))
                  => calls[k].op = "rateLimit.get"
        /\ (processedCount >= Max /\ CountedDecisions # {}) =>
              /\ \A k \in 1..Len(calls) :
                    calls[k].branch > LastCounted =>
                        /\ calls[k].op = "rateLimit.get"
                        /\ calls[k].branch = LastCounted + 1
              /\ \A k \in 1..Len(log) :
                    log[k].branch > LastCounted => log[k].decision \in {"cap", "rate-limit"}
        /\ \A k \in 1..Len(log) :
              log[k].decision = "cap" =>
                  /\ k = Len(log)
                  /\ processedCount >= Max
                  /\ pc = "done" /\ failed = NoError /\ output.set = 1

\* the cap, reached by a deletion, stopped the run at a protected branch
C16_Witness ==
    /\ pc = "done" /\ failed = NoError
    /\ Len(branches) = 2 /\ branches[2].protected
    /\ DecisionsFor(1) = {"deleted"} /\ DecisionsFor(2) = {"cap"}
    /\ calls[Len(calls)] = [op |-> "rateLimit.get", branch |-> 2, threw |-> FALSE]

(* C17: a step of the rate-limit gate issues exactly one probe, and it     *)
(* aborts the run exactly when the probe succeeds and reports less than    *)
(* rate-limit-threshold: a remaining quota equal to the threshold goes on, *)
(* and so does every probe under a threshold of 0.                         *)

C17_GuardStrictlyBelow ==
    [][ pc = "rateLimit" =>
            /\ Len(calls') = Len(calls) + 1
            /\ calls'[Len(calls')] = [op |-> "rateLimit.get", branch |-> idx, threw |-> FALSE]
            /\ (failed' = RateLimitMessage)
                  <=> (quota'.ok /\ quota'.remaining < inputs.rateLimitThreshold.value)
            /\ failed' # NoError => failed' = RateLimitMessage
            /\ inputs.rateLimitThreshold.value = 0 => failed' = NoError ]_vars

\* the probe reported exactly the threshold and the script went on to fetch
C17_Witness ==
    /\ quota.probed /\ quota.ok
    /\ Threshold = 1 /\ quota.remaining = 1
    /\ pc = "getCommit" /\ failed = NoError

PassedOpenPRCheck(i) ==
    inputs.skipOpenPRs =>
        /\ ~HasOpenPRs(remote.prs)
        /\ \E k \in 1..Len(calls) :
              calls[k].branch = i /\ calls[k].op = "pulls.open" /\ ~calls[k].threw

(* C18: with skip-unmerged off neither compareCommits nor the all-state    *)
(* pulls.list is ever called, and a fetched stale branch that passed the   *)
(* open-PR check (or with skip-open-prs off) is counted in a dry run and   *)
(* otherwise gets its deleteRef call, being deleted when the call returns, *)
(* whatever its ahead-by count.                                            *)

C18_MergeStateNotEvaluated ==
    ~inputs.skipUmerged =>
        /\ \A k \in 1..Len(calls) : calls[k].op \notin {"compare", "pulls.all"}
        /\ (/\ IterationOver /\ remote.known
            /\ remote.date < Now - inputs.staleDays.value * DayMs
            /\ PassedOpenPRCheck(Evaluated))
              => IF inputs.dryRun
                 THEN DecisionsFor(Evaluated) = {"dry-run"}
                 ELSE \E k \in 1..Len(calls) :
                         /\ calls[k].branch = Evaluated /\ calls[k].op = "deleteRef"
                         /\ ~calls[k].threw =>
                               (DeletedOnce(Evaluated) /\ DecisionsFor(Evaluated) = {"deleted"})

\* a branch ahead of the default branch was deleted after the open-PR check
C18_Witness ==
    /\ ~inputs.skipUmerged /\ inputs.skipOpenPRs /\ ~inputs.dryRun
    /\ IterationOver /\ remote.known /\ remote.aheadBy > 0
    /\ DecisionsFor(Evaluated) = {"deleted"}
    /\ calls[Len(calls)].op = "deleteRef"

StaleAhead ==
    /\ remote.known
    /\ remote.date < Now - inputs.staleDays.value * DayMs
    /\ remote.aheadBy > 0

AllMerged(prs) == \A k \in 1..Len(prs) : prs[k].state = "closed" /\ prs[k].merged_at

(* C19: with skip-unmerged and include-unmerged-and-closed-prs both set, a *)
(* stale branch ahead of the default branch with no pull request, or with  *)
(* merged ones only, is skipped for its unmerged commits; with a pull      *)
(* request closed without merge it is skipped as well when another one is  *)
(* open, and deleted (counted, in a dry run) when none is.                 *)

C19_ClosedPRResolution ==
    (/\ inputs.skipUmerged /\ inputs.includeClosedPRs
     /\ IterationOver /\ StaleAhead)
        => /\ AllMerged(remote.prs) =>
                 /\ Skipped(Evaluated)
                 /\ NoCallThrew(Evaluated) => DecisionsFor(Evaluated) = {"unmerged"}
           /\ (HasClosedUnmergedPRs(remote.prs) /\ HasOpenPRs(remote.prs)) =>
                 Skipped(Evaluated)
           /\ (HasClosedUnmergedPRs(remote.prs) /\ ~HasOpenPRs(remote.prs)
                   /\ NoCallThrew(Evaluated)) =>
                 IF inputs.dryRun
                 THEN DecisionsFor(Evaluated) = {"dry-run"}
                 ELSE DeletedOnce(Evaluated)

\* skip-open-prs off: the all-state listing held a pull request closed without
\* merge and an open one, and the open one kept the branch
C19_Witness ==
    /\ inputs.skipUmerged /\ inputs.includeClosedPRs /\ ~inputs.skipOpenPRs
    /\ IterationOver /\ StaleAhead
    /\ HasClosedUnmergedPRs(remote.prs) /\ HasOpenPRs(remote.prs)
    /\ DecisionsFor(Evaluated) = {"unmerged-open-prs"}

\* the branch last fetched was found active
FoundActive == DecisionsFor(Evaluated) = {"active"}

Fetched == IterationOver /\ remote.known

(* C20, as stated: a fetched branch is active exactly when its commit date *)
(* is not below now - stale-days * 86400000 ms; a commit exactly stale-days *)
(* old is active; and with stale-days 0 every commit not dated exactly now *)
(* is stale.                                                               *)

C20_Original ==
    Fetched =>
        /\ FoundActive <=> ~(remote.date < Now - inputs.staleDays.value * 86400000)
        /\ remote.date = Now - inputs.staleDays.value * 86400000 => FoundActive
        /\ (inputs.staleDays.value = 0 /\ remote.date # Now) => ~FoundActive

(* C20, amended: a fetched branch is stale exactly when its commit date is *)
(* strictly below now - stale-days * 86400000 ms, now being fixed at the   *)
(* start of the run; a commit exactly stale-days old is active; and with   *)
(* stale-days 0 every commit dated before now is stale, while a commit     *)
(* dated now or later is active.                                           *)

C20_StrictlyOlderIsStale ==
    Fetched =>
        /\ FoundActive <=> ~(remote.date < Now - inputs.staleDays.value * 86400000)
        /\ remote.date = Now - inputs.staleDays.value * 86400000 => FoundActive
        /\ (inputs.staleDays.value = 0 /\ remote.date < Now) => ~FoundActive
        /\ (inputs.staleDays.value = 0 /\ remote.date >= Now) => FoundActive

\* stale-days 0 and a commit dated after the start of the run: active
C20_Witness ==
    /\ Fetched
    /\ inputs.staleDays.value = 0
    /\ remote.date > Now
    /\ FoundActive

NotANumberOrBelow(x, n) == x.nan \/ x.value < n

ConfigurationError ==
    \/ NotANumberOrBelow(inputs.staleDays, 0)
    \/ NotANumberOrBelow(inputs.maxBranchesToDelete, 1)
    \/ NotANumberOrBelow(inputs.processThrottleMs, 0)
    \/ NotANumberOrBelow(inputs.rateLimitThreshold, 0)

(* C21: when stale-days, process-throttle-ms or rate-limit-threshold is    *)
(* negative or no number, or max-branches-to-delete is not positive, the   *)
(* run is over after its first step, failed, without a single call to the  *)
(* service, and the output, set once, is the empty list with count 0.      *)

C21_ConfigurationErrorIsFatal ==
    ConfigurationError =>
        /\ calls = <<>>
        /\ pc \in {"start", "done"}
        /\ pc = "done" =>
              /\ failed = "Invalid input"
              /\ output = [set |-> 1, deletedBranches |-> <<>>, count |-> 0]
              /\ outputDeletedBranches = <<>> /\ deletedCount = 0

\* a run refused for max-branches-to-delete = 0, every other input being valid
C21_Witness ==
    /\ pc = "done"
    /\ inputs.maxBranchesToDelete = Num(0)
    /\ inputs.staleDays = Num(1)
    /\ inputs.processThrottleMs = Num(0)
    /\ inputs.rateLimitThreshold = Num(0)
    /\ failed = "Invalid input"
    /\ output.set = 1

(* C22: the deleted list holds exactly the branches whose deleteRef call   *)
(* returned, in call order; the deletion count is its length and never     *)
(* exceeds the candidate counter; the output is not set while the run goes *)
(* on and is set exactly once, with that list and count, when the run is   *)
(* over, however it ended.                                                 *)

C22_ResultsReportedOnce ==
    /\ outputDeletedBranches = DeletedByCalls
    /\ deletedCount = Len(outputDeletedBranches)
    /\ deletedCount <= processedCount
    /\ pc # "done" => output.set = 0
    /\ pc = "done" =>
          /\ output.set = 1
          /\ output.deletedBranches = DeletedByCalls
          /\ output.count = Len(DeletedByCalls)

\* a run that ended by itself after deleting its first branch and finding the
\* second one active
C22_Witness ==
    /\ pc = "done" /\ failed = NoError
    /\ Len(branches) = 2
    /\ DecisionsFor(1) = {"deleted"} /\ DecisionsFor(2) = {"active"}
    /\ output.set = 1 /\ output.count = 1 /\ processedCount = 1

====
